---- MODULE Spec2Model ----
(***************************************************************************)
(* Rule evaluation engine of the survey data validation tool.              *)
(*                                                                         *)
(* The repository holds several drafts of the same engine; three of them   *)
(* keep the cross-rule skip_pass_ids state and are modelled here side by   *)
(* side: app5.py, app6.py and appnew.py.  The variable `variant` says      *)
(* which draft a run executes.                                             *)
(*                                                                         *)
(* Text (question tokens, check types, conditions, text cells) is a        *)
(* sequence of one-character strings, so that Python's split / strip /     *)
(* `in` / regular expressions are computed character by character.         *)
(***************************************************************************)
EXTENDS Integers, Sequences, FiniteSets, TLC

(***************************************************************************)
(* Python str primitives                                                   *)
(***************************************************************************)
UpperChars == <<"A","B","C","D","E","F","G","H","I","J","K","L","M",
                "N","O","P","Q","R","S","T","U","V","W","X","Y","Z">>

LowerChars == <<"a","b","c","d","e","f","g","h","i","j","k","l","m",
                "n","o","p","q","r","s","t","u","v","w","x","y","z">>

DigitChars == <<"0","1","2","3","4","5","6","7","8","9">>

Elems(f) == {f[i] : i \in DOMAIN f}

\* the least / greatest index of a set of indices, `none` when it is empty
MinOr(none, S) == IF S = {} THEN none ELSE CHOOSE i \in S : \A j \in S : i <= j

MaxOr(none, S) == IF S = {} THEN none ELSE CHOOSE i \in S : \A j \in S : i >= j

IsSpace(c) == c \in {" ", "\t", "\n"}

IsDigit(c) == c \in Elems(DigitChars)

\* \w of the re module, on the ASCII characters the inputs use
IsWordChar(c) == c \in Elems(UpperChars) \cup Elems(LowerChars) \cup Elems(DigitChars) \cup {"_"}

LowerChar(c) ==
    IF c \in Elems(UpperChars)
    THEN LowerChars[CHOOSE i \in DOMAIN UpperChars : UpperChars[i] = c]
    ELSE c

\* str.lower()
Lower(s) == [i \in DOMAIN s |-> LowerChar(s[i])]

\* s[i:] with a 1-based first index
From(s, i) == SubSeq(s, i, Len(s))

\* str.startswith(p)
StartsWith(s, p) == Len(p) <= Len(s) /\ SubSeq(s, 1, Len(p)) = p

\* str.endswith(p)
EndsWith(s, p) == Len(p) <= Len(s) /\ SubSeq(s, Len(s) - Len(p) + 1, Len(s)) = p

\* sub occurs in s at index i
OccursAt(s, sub, i) ==
    /\ i >= 1
    /\ i + Len(sub) - 1 <= Len(s)
    /\ SubSeq(s, i, i + Len(sub) - 1) = sub

\* str.find(sub, from) with 1-based indices; 0 when absent
Find(s, sub, from) ==
    MinOr(0, {i \in from..(Len(s) - Len(sub) + 1) : OccursAt(s, sub, i)})

\* `sub in s`
Contains(s, sub) == Find(s, sub, 1) # 0

\* str.strip()
Strip(s) ==
    SubSeq(s, MinOr(1, {i \in DOMAIN s : ~IsSpace(s[i])}),
              MaxOr(0, {i \in DOMAIN s : ~IsSpace(s[i])}))

\* str.split(sep): every non-overlapping occurrence, left to right
RECURSIVE Split(_, _)
SplitAt(s, sep, i) ==
    IF i = 0 THEN <<s>>
    ELSE <<SubSeq(s, 1, i - 1)>> \o Split(From(s, i + Len(sep)), sep)

Split(s, sep) == SplitAt(s, sep, Find(s, sep, 1))

\* str.split(sep, 1)
Split1At(s, sep, i) ==
    IF i = 0 THEN <<s>> ELSE <<SubSeq(s, 1, i - 1), From(s, i + Len(sep))>>

Split1(s, sep) == Split1At(s, sep, Find(s, sep, 1))

\* str.split(): split on runs of whitespace, no empty pieces
RECURSIVE SplitWs(_)
SplitWsAt(t, i) ==
    IF t = <<>> THEN <<>>
    ELSE IF i = 0 THEN <<t>>
    ELSE <<SubSeq(t, 1, i - 1)>> \o SplitWs(From(t, i))

SplitWsStripped(t) == SplitWsAt(t, MinOr(0, {i \in DOMAIN t : IsSpace(t[i])}))

SplitWs(s) == SplitWsStripped(Strip(s))

\* sep.join(parts)
RECURSIVE Join(_, _)
Join(parts, sep) ==
    IF parts = <<>> THEN <<>>
    ELSE IF Len(parts) = 1 THEN parts[1]
    ELSE parts[1] \o sep \o Join(Tail(parts), sep)

\* str.replace(old, new)
Replace(s, old, new) == Join(Split(s, old), new)

\* [x.strip() for x in parts]
StripAll(parts) == [i \in DOMAIN parts |-> Strip(parts[i])]

\* first index >= i of s that holds no whitespace (Len(s)+1 when none)
SkipSpaces(s, i) == MinOr(Len(s) + 1, {k \in i..Len(s) : ~IsSpace(s[k])})

(***************************************************************************)
(* Regular expressions of the drafts                                       *)
(***************************************************************************)
\* kw, then whitespace, at index j of s: the index after the whitespace, else 0
KwAt(s, kw, j) ==
    IF /\ j + Len(kw) <= Len(s)
       /\ Lower(SubSeq(s, j, j + Len(kw) - 1)) = kw
       /\ IsSpace(s[j + Len(kw)])
    THEN SkipSpaces(s, j + Len(kw))
    ELSE 0

\* r'\s+kw\s+' with re.IGNORECASE matches at i: the index after the match, else 0
KwMatchEnd(s, kw, i) ==
    IF i > Len(s) \/ i < 1 THEN 0
    ELSE IF ~IsSpace(s[i]) THEN 0
    ELSE KwAt(s, kw, SkipSpaces(s, i))

\* re.split(r'\s+kw\s+', s, flags=re.IGNORECASE)
RECURSIVE ReSplitKw(_, _)
ReSplitKwAt(s, kw, i) ==
    IF i = 0 THEN <<s>>
    ELSE <<SubSeq(s, 1, i - 1)>> \o ReSplitKw(From(s, KwMatchEnd(s, kw, i)), kw)

ReSplitKw(s, kw) ==
    ReSplitKwAt(s, kw, MinOr(0, {i \in DOMAIN s : KwMatchEnd(s, kw, i) # 0}))

\* a \w character stands at index i of s
WordCharAt(s, i) == i >= 1 /\ i <= Len(s) /\ IsWordChar(s[i])

\* \b holds between index i-1 and index i of s
WordBoundary(s, i) == WordCharAt(s, i - 1) # WordCharAt(s, i)

\* re.search(r'(?i)\bword\b', s): index of the first match at or after from, else 0
FindWord(s, word, from) ==
    MinOr(0, {i \in from..(Len(s) - Len(word) + 1) :
                 /\ Lower(SubSeq(s, i, i + Len(word) - 1)) = word
                 /\ WordBoundary(s, i)
                 /\ WordBoundary(s, i + Len(word))})

\* index after the run of \w characters that starts at i
WordEnd(s, i) == MinOr(Len(s) + 1, {k \in i..Len(s) : ~IsWordChar(s[k])})

\* re.search(r'(?i)\b(Q[\w_]+)\b(?=.*\bshould\b)', s): the start of group 1,
\* 0 when there is no match; group 1 ends before WordEnd(s, start)
FindQToken(s) ==
    MinOr(0, {i \in DOMAIN s :
                 /\ LowerChar(s[i]) = "q"
                 /\ WordBoundary(s, i)
                 /\ WordEnd(s, i) - i >= 2
                 /\ FindWord(s, <<"s","h","o","u","l","d">>, WordEnd(s, i)) # 0})

(***************************************************************************)
(* Numbers                                                                 *)
(***************************************************************************)
RECURSIVE DigitsValue(_)
DigitsValue(s) ==
    IF s = <<>> THEN 0
    ELSE 10 * DigitsValue(SubSeq(s, 1, Len(s) - 1))
         + (CHOOSE i \in DOMAIN DigitChars : DigitChars[i] = s[Len(s)]) - 1

AllDigits(s) == \A i \in DOMAIN s : IsDigit(s[i])

\* float() of sign, integer part and fraction.  The literals of the modelled
\* inputs are integer valued: digits and an optional fraction of zeros.
\* ok = FALSE stands for the ValueError float() raises.
FloatOf(neg, ip, fp) ==
    IF ip # <<>> /\ AllDigits(ip) /\ \A i \in DOMAIN fp : fp[i] = "0"
    THEN [ok |-> TRUE, v |-> IF neg THEN 0 - DigitsValue(ip) ELSE DigitsValue(ip)]
    ELSE [ok |-> FALSE, v |-> 0]

FloatBody(neg, body, dot) ==
    IF dot = 0 THEN FloatOf(neg, body, <<>>)
    ELSE FloatOf(neg, SubSeq(body, 1, dot - 1), From(body, dot + 1))

FloatSigned(neg, body) == FloatBody(neg, body, Find(body, <<".">>, 1))

FloatStripped(t) ==
    IF t # <<>> /\ t[1] \in {"-", "+"} THEN FloatSigned(t[1] = "-", Tail(t))
    ELSE FloatSigned(FALSE, t)

\* float(s): surrounding whitespace is ignored
ParseFloat(s) == FloatStripped(Strip(s))

\* str(n) of an int
RECURSIVE NatStr(_)
NatStr(n) ==
    IF n < 10 THEN <<DigitChars[n + 1]>>
    ELSE NatStr(n \div 10) \o <<DigitChars[(n % 10) + 1]>>

IntStr(n) == IF n < 0 THEN <<"-">> \o NatStr(0 - n) ELSE NatStr(n)

(***************************************************************************)
(* Cells and columns of the DataFrame                                      *)
(***************************************************************************)
\* A cell is NaN, a number or a text.
NaN == [t |-> "nan", n |-> 0, s |-> <<>>]

Num(n) == [t |-> "num", n |-> n, s |-> <<>>]

Str(s) == [t |-> "str", n |-> 0, s |-> s]

\* Series.isna() of one cell
IsNa(c) == c.t = "nan"

\* dtype of a column: float64 when it holds numbers and at least one NaN,
\* int64 when it holds numbers alone, object as soon as it holds a text
IsObjectCol(col) == \E i \in DOMAIN col : col[i].t = "str"

IsFloatCol(col) == ~IsObjectCol(col) /\ \E i \in DOMAIN col : col[i].t = "nan"

\* Series.astype(str) of row i of a column
AsTypeStr(col, i) ==
    CASE col[i].t = "str" -> col[i].s
      [] col[i].t = "nan" -> <<"n","a","n">>
      [] OTHER -> IF IsFloatCol(col) THEN IntStr(col[i].n) \o <<".","0">>
                  ELSE IntStr(col[i].n)

\* (df[c].isna() | (df[c].astype(str).str.strip() == "")) of row i
BlankMask(col, i) == IsNa(col[i]) \/ Strip(AsTypeStr(col, i)) = <<>>

\* a float, or NaN
Float(v) == [nan |-> FALSE, v |-> v]

FloatNaN == [nan |-> TRUE, v |-> 0]

\* pd.to_numeric(col, errors="coerce") of one cell
CoerceText(s, p) == IF p.ok /\ s = Strip(s) THEN Float(p.v) ELSE FloatNaN

ToNumeric(c) ==
    CASE c.t = "num" -> Float(c.n)
      [] c.t = "nan" -> FloatNaN
      [] OTHER -> CoerceText(c.s, ParseFloat(c.s))

\* Series.astype(float) of a column: raises as soon as one text cell is no number
AsTypeFloatRaises(col) ==
    \E i \in DOMAIN col : col[i].t = "str" /\ ~ParseFloat(col[i].s).ok

AsTypeFloat(c) ==
    CASE c.t = "num" -> Float(c.n)
      [] c.t = "nan" -> FloatNaN
      [] OTHER -> Float(ParseFloat(c.s).v)

\* Series.between(lo, hi) of a numeric value (inclusive; NaN compares False)
Between(x, lo, hi) == ~x.nan /\ lo <= x.v /\ x.v <= hi

\* Series.between on the column as stored (no astype): comparing a text cell
\* with a float raises TypeError
BetweenRaises(col) == IsObjectCol(col)

(***************************************************************************)
(* Names and bounds                                                        *)
(***************************************************************************)
\* number of respondents (rows of the dataset)
NRows == 2

\* number of rule-table rows of a run
MaxRules == 2

Rows == 1..NRows

Variants == {"app5", "app6", "appnew"}

cRespondentID == <<"R","e","s","p","o","n","d","e","n","t","I","D">>
cS            == <<"S">>
cQ1           == <<"Q","1">>
cQ2_1         == <<"Q","2","_","1">>
cQ2_2         == <<"Q","2","_","2">>
cQ2_          == <<"Q","2","_">>
cZZ           == <<"Z","Z">>
cQ10          == <<"Q","1","0">>

cStraightliner == <<"S","t","r","a","i","g","h","t","l","i","n","e","r">>
cMissing       == <<"M","i","s","s","i","n","g">>
cRange         == <<"R","a","n","g","e">>
cSkip          == <<"S","k","i","p">>
cMultiSelect   == <<"M","u","l","t","i","-","S","e","l","e","c","t">>
cOpenEndJunk   == <<"O","p","e","n","E","n","d","_","J","u","n","k">>
cDuplicate     == <<"D","u","p","l","i","c","a","t","e">>
cNone          == <<"N","o","n","e">>
cThen          == <<"t","h","e","n">>
cTo            == <<"t","o">>
cBlank         == <<"b","l","a","n","k">>

\* df.columns, in the order of the data file
ColNames == <<cRespondentID, cS, cQ1, cQ2_1, cQ2_2, cQ10>>

InColumns(name) == \E k \in DOMAIN ColNames : ColNames[k] = name

\* expand_prefix(prefix, df.columns) / [c for c in df.columns if c.startswith(q)]
expand_prefix(prefix) ==
    LET Hit(c) == StartsWith(c, prefix) IN SelectSeq(ColNames, Hit)

\* a wrong reading of C10: the rows of a set, last row first
RowsSeqDescending(S) ==
    LET In(i) == i \in S IN SelectSeq([i \in Rows |-> NRows + 1 - i], In)

\* the rows of a set, in dataset order
RowsSeq(S) ==
    LET In(i) == i \in S IN SelectSeq([i \in Rows |-> i], In)

\* RespondentID of row i (synthesized 1..N when the file has none)
Rid(d, i) == d[cRespondentID][i].n

(***************************************************************************)
(* Findings                                                                *)
(***************************************************************************)
\* One entry of `report`.  RespondentID 0 stands for None (a rule-level finding).
\* Issue is the fixed text of the message; Arg the text the f-string embeds
\* (the condition or the variable name); Lo, Hi the bounds a Range finding
\* embeds; Err the exception text a Skip failure embeds.
Finding(rid, question, ct, issue, arg, lo, hi, err) ==
    [RespondentID |-> rid, Question |-> question, Check_Type |-> ct,
     Issue |-> issue, Arg |-> arg, Lo |-> lo, Hi |-> hi, Err |-> err]

RuleFinding(question, ct, issue, arg, err) ==
    Finding(0, question, ct, issue, arg, 0, 0, err)

\* for rid in offenders: report.append({...}), rs the offending rows in order
AppendEach(d, rs, question, ct, issue, lo, hi) ==
    [k \in DOMAIN rs |-> Finding(Rid(d, rs[k]), question, ct, issue, <<>>, lo, hi, "")]

\* the findings of the rows of S, in dataset row order
RowFindings(d, S, question, ct, issue, lo, hi) ==
    AppendEach(d, RowsSeq(S), question, ct, issue, lo, hi)

\* str(condition) / f"{condition}": None prints as "None"
CondText(c) == IF c.none THEN cNone ELSE c.cond

\* the concatenation of a sequence of sequences
RECURSIVE Flatten(_)
Flatten(ss) == IF ss = <<>> THEN <<>> ELSE Head(ss) \o Flatten(Tail(ss))

(***************************************************************************)
(* Rule row -> rule-checks                                                 *)
(***************************************************************************)
\* [c.strip() for c in str(cell).split(";")]
SemiList(text) == StripAll(Split(text, <<";">>))

\* check_types of a rule row; app6 drops the empty entries
check_types(v, rule) ==
    LET NonEmpty(c) == c # <<>>
    IN  IF v = "app6" THEN SelectSeq(SemiList(rule.Check_Type), NonEmpty)
        ELSE SemiList(rule.Check_Type)

\* a wrong reading of C9: the conditions as written, nothing repeated
PadToNothing(cs, n) == cs

\* appnew: repeat the last condition up to n entries, drop the entries past n
PadTo(cs, n) == [i \in 1..n |-> IF i <= Len(cs) THEN cs[i] ELSE cs[Len(cs)]]

\* conditions of a rule row, for n check types
conditions(v, rule, n) ==
    IF v = "appnew" THEN PadTo(SemiList(rule.Condition), n)
    ELSE SemiList(rule.Condition)

\* for i, check_type in enumerate(check_types):
\*     condition = conditions[i] if i < len(conditions) else None
Pairs(cts, cs) ==
    [i \in DOMAIN cts |->
        IF i <= Len(cs) THEN [ct |-> cts[i], cond |-> cs[i], none |-> FALSE]
        ELSE [ct |-> cts[i], cond |-> <<>>, none |-> TRUE]]

PairTypes(v, rule, cts) == Pairs(cts, conditions(v, rule, Len(cts)))

\* the (check_type, condition) pairs the inner loop walks
PairChecks(v, rule) == PairTypes(v, rule, check_types(v, rule))

(***************************************************************************)
(* Missing                                                                 *)
(***************************************************************************)
\* the columns a Missing or Range check walks
related_cols(v, question) ==
    IF v = "appnew" /\ ~InColumns(question) THEN expand_prefix(question)
    ELSE <<question>>

\* a wrong reading of C3: the skip-satisfaction set is not consulted
MissingOffendersAll(v, d, col, skip) ==
    IF v = "app6"
    THEN {i \in Rows : BlankMask(d[col], i)}
    ELSE {i \in Rows : IsNa(d[col][i])}

\* the rows a Missing check reports for one column
MissingOffenders(v, d, col, skip) ==
    IF v = "app6"
    THEN {i \in Rows : BlankMask(d[col], i) /\ Rid(d, i) \notin skip}
    ELSE {i \in Rows : IsNa(d[col][i]) /\ Rid(d, i) \notin skip}

MissingFindingsCols(v, d, cols, skip) ==
    Flatten([k \in DOMAIN cols |->
        RowFindings(d, MissingOffenders(v, d, cols[k], skip), cols[k],
                    cMissing, "Value is missing", 0, 0)])

MissingFindings(v, d, question, skip) ==
    MissingFindingsCols(v, d, related_cols(v, question), skip)

(***************************************************************************)
(* Range: the condition                                                    *)
(***************************************************************************)
RangePlan(ok, lo, hi) == [ok |-> ok, lo |-> lo, hi |-> hi]

\* min_val, max_val = map(float, pieces): two pieces, both floats
RangeBounds(lo, hi) ==
    IF lo.ok /\ hi.ok THEN RangePlan(TRUE, lo.v, hi.v) ELSE RangePlan(FALSE, 0, 0)

RangePieces(pieces) ==
    IF Len(pieces) # 2 THEN RangePlan(FALSE, 0, 0)
    ELSE RangeBounds(ParseFloat(pieces[1]), ParseFloat(pieces[2]))

\* if "-" not in str(condition): raise; condition.split("-")
ParseRange(c) ==
    IF c.none \/ ~Contains(c.cond, <<"-">>) THEN RangePlan(FALSE, 0, 0)
    ELSE RangePieces(Split(c.cond, <<"-">>))

(***************************************************************************)
(* Skip: splitting the condition                                           *)
(***************************************************************************)
\* What the first statements of the Skip branch yield.  err # "" stands for
\* the exception raised; then_q is the target app6 extracts while splitting.
SkipParts(err, if_part, then_part, then_q) ==
    [err |-> err, if_part |-> if_part, then_part |-> then_part, then_q |-> then_q]

SkipSplitFail(err) == SkipParts(err, <<>>, <<>>, <<>>)

\* app6: then_q = then_part.split()[0].strip()
ThenFirstWord(if_part, then_part, toks) ==
    IF toks = <<>> THEN SkipSplitFail("list index out of range")
    ELSE SkipParts("", if_part, then_part, Strip(toks[1]))

ThenStripped(if_part, then_part) ==
    ThenFirstWord(if_part, then_part, SplitWs(then_part))

\* app6: if_part, then_part = re.split(r'(?i)\bthen\b', cond_text, maxsplit=1)
SplitThen(text, t) ==
    ThenStripped(Strip(SubSeq(text, 1, t - 1)), Strip(From(text, t + Len(cThen))))

\* app6: left, right = cond_text.split(then_q, 1)
SplitAround(lr, tok) == SkipParts("", Strip(lr[1]), Strip(lr[2]), tok)

SplitToken(text, tok) == SplitAround(Split1(text, tok), tok)

\* app6: the no-then format, m the start of the Q token followed by "should"
SplitNoThen(text, m) ==
    IF m = 0 THEN SkipSplitFail("Invalid skip format")
    ELSE SplitToken(text, SubSeq(text, m, WordEnd(text, m) - 1))

SplitApp6(text, t) ==
    IF t # 0 THEN SplitThen(text, t) ELSE SplitNoThen(text, FindQToken(text))

\* app5, appnew: if_part, then_part = condition.split("then", 1)
SplitPlain(lr) == SkipParts("", Strip(lr[1]), Strip(lr[2]), <<>>)

SkipSplit(v, c) ==
    IF v = "app6" THEN SplitApp6(IF c.none THEN <<>> ELSE c.cond,
                                 FindWord(IF c.none THEN <<>> ELSE c.cond, cThen, 1))
    ELSE IF c.none \/ ~Contains(c.cond, cThen) THEN SkipSplitFail("Not a valid skip format")
    ELSE SplitPlain(Split1(c.cond, cThen))

\* if if_part.lower().startswith("if"): conds_text = if_part[2:].strip()
conds_text(if_part) ==
    IF StartsWith(Lower(if_part), <<"i","f">>) THEN Strip(From(if_part, 3))
    ELSE if_part

\* and_parts of every or_group, in textual order
AndParts(gs) == [k \in DOMAIN gs |-> ReSplitKw(gs[k], <<"a","n","d">>)]

or_groups(text) == AndParts(ReSplitKw(text, <<"o","r">>))

(***************************************************************************)
(* Skip: one comparison                                                    *)
(***************************************************************************)
\* for op in [...]: if op in part -- the operators each draft tries, in order
OpList(v) ==
    CASE v = "app6"   -> << <<"<","=">>, <<">","=">>, <<"!","=">>, <<"<">>, <<">">>, <<"=">> >>
      [] v = "appnew" -> << <<"<","=">>, <<">","=">>, <<"!","=">>, <<"<",">">>,
                            <<"<">>, <<">">>, <<"=">> >>
      [] OTHER        -> << <<"!","=">>, <<"=">> >>

\* index in OpList(v) of the first operator that occurs in the part, else 0
FirstOp(v, part) == MinOr(0, {k \in DOMAIN OpList(v) : Contains(part, OpList(v)[k])})

IsNumericOp(op) == op \in { <<"<","=">>, <<">","=">>, <<"<">>, <<">">> }

\* What one AND-part does to sub_mask, as far as the text and df.columns
\* decide it.  err # "" stands for the exception it raises.  kind:
\*   "num"   sub_mask &= pd.to_numeric(df[col], errors="coerce") <op> float(val)
\*   "eq"    sub_mask &= df[col].astype(str).str.strip() == str(val)
\*   "ne"    sub_mask &= df[col].astype(str).str.strip() != str(val)
\*   "false" sub_mask &= False        (appnew: col not in df.columns)
\*   "true"  sub_mask left as it is   (appnew: no operator in the part)
Comparison(err, kind, op, col, val, num) ==
    [err |-> err, kind |-> kind, op |-> op, col |-> col, val |-> val, num |-> num]

\* val_num = float(val)
NumericPart(op, col, val, f) ==
    IF f.ok THEN Comparison("", "num", op, col, val, f.v)
    ELSE Comparison("could not convert string to float", "raise", op, col, val, 0)

\* a wrong reading of C21: a comparison on an absent column raises in every draft
PartOfAbsentRaises(v, op, col, val) ==
    IF ~InColumns(col) THEN Comparison("KeyError", "raise", op, col, val, 0)
    ELSE IF IsNumericOp(op) THEN NumericPart(op, col, val, ParseFloat(val))
    ELSE IF op = <<"=">> THEN Comparison("", "eq", op, col, val, 0)
    ELSE Comparison("", "ne", op, col, val, 0)

PartOf(v, op, col, val) ==
    IF ~InColumns(col)
    THEN IF v = "appnew" THEN Comparison("", "false", op, col, val, 0)
         ELSE Comparison("KeyError", "raise", op, col, val, 0)
    ELSE IF IsNumericOp(op) THEN NumericPart(op, col, val, ParseFloat(val))
    ELSE IF op = <<"=">> THEN Comparison("", "eq", op, col, val, 0)
    ELSE Comparison("", "ne", op, col, val, 0)

\* col, val = [p.strip() for p in part.split(op, 1)]
PartOperands(v, op, cv) == PartOf(v, op, cv[1], cv[2])

PartWithOp(v, part, op) == PartOperands(v, op, StripAll(Split1(part, op)))

PartAt(v, part, k) ==
    IF k # 0 THEN PartWithOp(v, part, OpList(v)[k])
    ELSE IF v = "appnew" THEN Comparison("", "true", <<>>, <<>>, <<>>, 0)
    ELSE Comparison("Unsupported operator", "raise", <<>>, <<>>, <<>>, 0)

PartNormal(v, part) == PartAt(v, part, FirstOp(v, part))

\* part = part.strip().replace("<>", "!=")
ParsePart(v, rawpart) ==
    PartNormal(v, Replace(Strip(rawpart), <<"<",">">>, <<"!","=">>))

\* col_vals <op> val_num on one row
NumCompare(op, x, val) ==
    /\ ~x.nan
    /\ CASE op = <<"<","=">> -> x.v <= val
         [] op = <<">","=">> -> x.v >= val
         [] op = <<"<">>     -> x.v < val
         [] OTHER            -> x.v > val

\* the rows one comparison leaves True in sub_mask
PartRows(d, p) ==
    CASE p.kind = "true"  -> Rows
      [] p.kind = "num"   -> {i \in Rows : NumCompare(p.op, ToNumeric(d[p.col][i]), p.num)}
      [] p.kind = "eq"    -> {i \in Rows : Strip(AsTypeStr(d[p.col], i)) = p.val}
      [] p.kind = "ne"    -> {i \in Rows : Strip(AsTypeStr(d[p.col], i)) # p.val}
      [] OTHER            -> {}

(***************************************************************************)
(* Skip: the IF mask                                                       *)
(***************************************************************************)
\* a wrong reading of C7: one true comparison is enough for a group
sub_mask_any(d, parts) ==
    {i \in Rows : \E k \in DOMAIN parts : i \in PartRows(d, parts[k])}

\* sub_mask of one OR-group: starts True, &= every part
sub_mask(d, parts) ==
    {i \in Rows : \A k \in DOMAIN parts : i \in PartRows(d, parts[k])}

\* mask: starts False, |= every sub_mask
IfMask(d, groups) == UNION {sub_mask(d, groups[g]) : g \in DOMAIN groups}

\* the exception of the first part that raises, "" when none does
FirstErr(parts) ==
    IF \A k \in DOMAIN parts : parts[k].err = "" THEN ""
    ELSE parts[MinOr(0, {k \in DOMAIN parts : parts[k].err # ""})].err

MaskErr(groups) == FirstErr(Flatten(groups))

(***************************************************************************)
(* Skip: the THEN part                                                     *)
(***************************************************************************)
\* re.match(r"([A-Za-z0-9_]+?)(\d+)$", s), k the length of group 1: the lazy
\* base takes the shortest prefix (at least one character) that leaves
\* nothing but digits
RangeMatchAt(s, k) ==
    IF Len(s) >= 2 /\ k < Len(s) /\ \A i \in DOMAIN s : IsWordChar(s[i])
    THEN [ok |-> TRUE, base |-> SubSeq(s, 1, k), num |-> DigitsValue(From(s, k + 1))]
    ELSE [ok |-> FALSE, base |-> <<>>, num |-> 0]

RangeMatch(s) == RangeMatchAt(s, MaxOr(1, {i \in DOMAIN s : ~IsDigit(s[i])}))

\* [f"{prefix}{i}" for i in range(a, b + 1) if f"{prefix}{i}" in df_cols]
RECURSIVE NumberedCols(_, _, _)
NumberedCols(prefix, a, b) ==
    IF a > b THEN <<>>
    ELSE (IF InColumns(prefix \o IntStr(a)) THEN <<prefix \o IntStr(a)>> ELSE <<>>)
         \o NumberedCols(prefix, a + 1, b)

Targets(err, cols) == [err |-> err, cols |-> cols]

\* return [expr] if expr in df_cols else []
SingleCol(e) == Targets("", IF InColumns(e) THEN <<e>> ELSE <<>>)

RangeBases(e, b1, b2) ==
    IF b1.ok /\ b2.ok /\ b1.base = b2.base
    THEN Targets("", NumberedCols(b1.base, b1.num, b2.num))
    ELSE SingleCol(e)

\* start, end = [x.strip() for x in expr.split("to")]
RangeEnds(e, pieces) ==
    IF Len(pieces) # 2 THEN Targets("too many values to unpack", <<>>)
    ELSE RangeBases(e, RangeMatch(pieces[1]), RangeMatch(pieces[2]))

ExpandStripped(e) ==
    IF ~Contains(e, cTo) THEN SingleCol(e)
    ELSE RangeEnds(e, StripAll(Split(e, cTo)))

\* expand_range(expr, df.columns); err # "" stands for the ValueError of the
\* two-name unpacking of expr.split("to")
expand_range(expr) == ExpandStripped(Strip(expr))

\* appnew: then_expr = then_part.split()[0] and the three forms of the target
TargetsNew(then_part, toks) ==
    IF toks = <<>> THEN Targets("list index out of range", <<>>)
    ELSE IF Contains(then_part, cTo)
    THEN IF Len(toks) < 3 THEN Targets("list index out of range", <<>>)
         ELSE expand_range(toks[1] \o <<" ">> \o toks[2] \o <<" ">> \o toks[3])
    ELSE IF EndsWith(toks[1], <<"_">>) THEN Targets("", expand_prefix(toks[1]))
    ELSE Targets("", <<toks[1]>>)

\* app5: then_q = then_part.split()[0].strip()
TargetsApp5(toks) ==
    IF toks = <<>> THEN Targets("list index out of range", <<>>)
    ELSE Targets("", <<Strip(toks[1])>>)

\* The target columns of a Skip check.  app5 and app6 take the first word of
\* the THEN part; appnew also expands "A to B" and a trailing-underscore prefix.
target_cols(v, sp) ==
    IF v = "app6" THEN Targets("", <<sp.then_q>>)
    ELSE IF v = "app5" THEN TargetsApp5(SplitWs(sp.then_part))
    ELSE TargetsNew(sp.then_part, SplitWs(sp.then_part))

\* should_be_blank = "blank" in then_part.lower()
should_be_blank(sp) == Contains(Lower(sp.then_part), cBlank)

\* Everything the Skip branch derives from the condition text and df.columns
\* before it looks at a cell: the exception it ends in (err # ""), the parsed
\* OR-groups, the target columns and the mode.
SkipPlan(err, groups, cols, blank) ==
    [err |-> err, groups |-> groups, cols |-> cols, blank |-> blank]

SkipFail(err) == SkipPlan(err, <<>>, <<>>, FALSE)

PlanTargets(sp, groups, tc) ==
    IF tc.err # "" THEN SkipFail(tc.err)
    ELSE SkipPlan("", groups, tc.cols, should_be_blank(sp))

PlanMask(v, sp, groups, merr) ==
    IF merr # "" THEN SkipFail(merr)
    ELSE PlanTargets(sp, groups, target_cols(v, sp))

PlanGroups(v, sp, groups) == PlanMask(v, sp, groups, MaskErr(groups))

ParseGroups(v, raw) ==
    [g \in DOMAIN raw |-> [k \in DOMAIN raw[g] |-> ParsePart(v, raw[g][k])]]

PlanSplit(v, sp) ==
    IF sp.err # "" THEN SkipFail(sp.err)
    ELSE PlanGroups(v, sp, ParseGroups(v, or_groups(conds_text(sp.if_part))))

SkipParse(v, c) == PlanSplit(v, SkipSplit(v, c))

(***************************************************************************)
(* Multi-Select                                                            *)
(***************************************************************************)
\* ~df[col].isin([0, 1]) of one cell
NotZeroOne(c) == ~(c.t = "num" /\ c.n \in {0, 1})

\* df[related_cols].fillna(0).sum(axis=1) of row i, over cells that are numbers
RECURSIVE RowSum(_, _, _)
RowSum(d, cols, i) ==
    IF cols = <<>> THEN 0
    ELSE (IF d[Head(cols)][i].t = "num" THEN d[Head(cols)][i].n ELSE 0)
         + RowSum(d, Tail(cols), i)

\* row i holds a text in one of the columns
RowHasText(d, cols, i) == \E k \in DOMAIN cols : d[cols[k]][i].t = "str"

\* sum(axis=1) adds the cells of a row: a text and a number (or the 0 that
\* fillna put in) in one row is a TypeError
SumRaises(d, cols) ==
    \E i \in Rows : /\ RowHasText(d, cols, i)
                    /\ \E k \in DOMAIN cols : d[cols[k]][i].t # "str"

\* the columns a numeric-only reduction keeps
NumericCols(d, cols) == LET Numeric(c) == ~IsObjectCol(d[c]) IN SelectSeq(cols, Numeric)

\* rows whose sum compares equal to 0.  Where the sum raises, a pandas that
\* still drops the non-numeric columns sums the others; a row of texts alone
\* sums to a text, which is not 0.
ZeroSumRows(d, cols) ==
    IF SumRaises(d, cols) THEN {i \in Rows : RowSum(d, NumericCols(d, cols), i) = 0}
    ELSE {i \in Rows : ~RowHasText(d, cols, i) /\ RowSum(d, cols, i) = 0}

\* for col in related_cols: the "Invalid value (not 0/1)" findings
InvalidFindings(d, cols) ==
    Flatten([k \in DOMAIN cols |->
        RowFindings(d, {i \in Rows : NotZeroOne(d[cols[k]][i])}, cols[k],
                    cMultiSelect, "Invalid value (not 0/1)", 0, 0)])

\* if len(related_cols) > 0: the "No options selected" findings (app5, app6)
NoneSelectedFindings(v, d, question, cols) ==
    IF v = "appnew" \/ cols = <<>> THEN <<>>
    ELSE RowFindings(d, ZeroSumRows(d, cols), question,
                     cMultiSelect, "No options selected", 0, 0)

MultiSelectCols(v, d, question, cols) ==
    InvalidFindings(d, cols) \o NoneSelectedFindings(v, d, question, cols)

MultiSelectFindings(v, d, question) ==
    MultiSelectCols(v, d, question, expand_prefix(question))

\* the sum is outside every try: where it raises on a pandas that no longer
\* drops non-numeric columns, the exception ends the run
MultiSelectRaises(v, d, question) ==
    v # "appnew" /\ SumRaises(d, expand_prefix(question))

(***************************************************************************)
(* Straightliner                                                           *)
(***************************************************************************)
\* app5, app6: the names of the comma list that are columns;
\* appnew: the token if it is a column, else the columns it is a prefix of
straight_cols(v, question) ==
    IF v = "appnew"
    THEN IF InColumns(question) THEN <<question>> ELSE expand_prefix(question)
    ELSE SelectSeq(StripAll(Split(question, <<",">>)), InColumns)

\* df[related_cols].nunique(axis=1) of row i: the distinct values, NaN dropped
NUnique(d, cols, i) ==
    Cardinality({d[cols[k]][i] : k \in DOMAIN cols} \ {NaN})

StraightlinerCols(v, d, question, cols) ==
    IF Len(cols) > 1
    THEN RowFindings(d, {i \in Rows : NUnique(d, cols, i) = 1}, Join(cols, <<",">>),
                     cStraightliner, "Same response across all items", 0, 0)
    ELSE <<RuleFinding(question, cStraightliner,
                       IF v = "appnew" THEN "No matching columns for straightliner"
                       ELSE "Question(s) not found in dataset", <<>>, "")>>

StraightlinerFindings(v, d, question) ==
    StraightlinerCols(v, d, question, straight_cols(v, question))

(***************************************************************************)
(* Duplicate                                                               *)
(***************************************************************************)
\* a wrong reading of C15: the first occurrence of a value is not reported
DuplicatedKeepFirst(d, col) ==
    {i \in Rows : \E j \in Rows : j < i /\ d[col][j] = d[col][i]}

\* df.duplicated(subset=[q], keep=False): the rows whose value another row
\* holds too; two NaN count as the same value
Duplicated(d, col) ==
    {i \in Rows : \E j \in Rows : j # i /\ d[col][j] = d[col][i]}

DuplicateFindings(d, question) ==
    RowFindings(d, Duplicated(d, question), question, cDuplicate,
                "Duplicate value found", 0, 0)

(***************************************************************************)
(* Inputs: the rule rows and the datasets of the bounded runs              *)
(***************************************************************************)
\* "if S=1 then Q1 should be blank"
kBlank == <<"i","f"," ","S","=","1"," ","t","h","e","n"," ","Q","1"," ","s","h","o","u","l","d"," ","b","e"," ","b","l","a","n","k">>

\* "if S=1 then Q1 should be answered"
kAnswered == <<"i","f"," ","S","=","1"," ","t","h","e","n"," ","Q","1"," ","s","h","o","u","l","d"," ","b","e"," ","a","n","s","w","e","r","e","d">>

\* "If S=2 AND Q2_1>=1 or S=1 then Q1 should be blank"
kOrAnd == <<"I","f"," ","S","=","2"," ","A","N","D"," ","Q","2","_","1",">","=","1"," ","o","r"," ","S","=","1"," ","t","h","e","n"," ","Q","1"," ","s","h","o","u","l","d"," ","b","e"," ","b","l","a","n","k">>

\* "S=1 Q1 should be blank"
kNoThen == <<"S","=","1"," ","Q","1"," ","s","h","o","u","l","d"," ","b","e"," ","b","l","a","n","k">>

\* "if S then Q1 should be blank"
kNoOp == <<"i","f"," ","S"," ","t","h","e","n"," ","Q","1"," ","s","h","o","u","l","d"," ","b","e"," ","b","l","a","n","k">>

\* "if then Q1 should be blank"
kEmptyIf == <<"i","f"," ","t","h","e","n"," ","Q","1"," ","s","h","o","u","l","d"," ","b","e"," ","b","l","a","n","k">>

\* "if ZZ=1 or S=1 then Q1 should be answered"
kAbsent == <<"i","f"," ","Z","Z","=","1"," ","o","r"," ","S","=","1"," ","t","h","e","n"," ","Q","1"," ","s","h","o","u","l","d"," ","b","e"," ","a","n","s","w","e","r","e","d">>

\* "if ZZ=1 or S=2 and ZZ>1 or S=1 then Q1 should be answered"
kAbsentGroups == <<"i","f"," ","Z","Z","=","1"," ","o","r"," ","S","=","2"," ","a","n","d"," ","Z","Z",">","1"," ","o","r"," ","S","=","1"," ","t","h","e","n"," ","Q","1"," ","s","h","o","u","l","d"," ","b","e"," ","a","n","s","w","e","r","e","d">>

\* "if S=1 then Q2_ should be blank"
kPrefix == <<"i","f"," ","S","=","1"," ","t","h","e","n"," ","Q","2","_"," ","s","h","o","u","l","d"," ","b","e"," ","b","l","a","n","k">>

\* "if S=1 then Q2_1 to Q2_2 should be answered"
kTo == <<"i","f"," ","S","=","1"," ","t","h","e","n"," ","Q","2","_","1"," ","t","o"," ","Q","2","_","2"," ","s","h","o","u","l","d"," ","b","e"," ","a","n","s","w","e","r","e","d">>

\* "1-5"
kRange15 == <<"1","-","5">>

\* "1-5;9-9"
kRangeTwo == <<"1","-","5",";","9","-","9">>

\* "nan": str() of an empty Condition cell
kNan == <<"n","a","n">>

\* "Missing;Range"
tMissingRange == <<"M","i","s","s","i","n","g",";","R","a","n","g","e">>

\* "Missing;Range;"
tMissingRangeSemi == <<"M","i","s","s","i","n","g",";","R","a","n","g","e",";">>

\* "Skip; Missing"
tSkipMissing == <<"S","k","i","p",";"," ","M","i","s","s","i","n","g">>

Rule(question, check_type, condition) ==
    [Question |-> question, Check_Type |-> check_type, Condition |-> condition]

\* "a;b"
Semi(a, b) == a \o <<";">> \o b

\* "Q2_1,Q2_2"
kItems == cQ2_1 \o <<",">> \o cQ2_2

\* "5"
kFive == <<"5">>

\* The rule rows a run draws its rule table from.  Each draft is driven with
\* forms its code handles and forms it fails on.
RuleRows(v) ==
    CASE v = "app6" ->
            { Rule(cQ1, Semi(tMissingRange, cMultiSelect), Semi(kNan, kRange15)),
              Rule(cQ1, Semi(cSkip, Semi(cSkip, cSkip)), Semi(kAnswered, Semi(kOrAnd, kAbsent))),
              Rule(cQ1, tSkipMissing, kBlank),
              Rule(cQ2_, Semi(cStraightliner, cMultiSelect), kNan),
              Rule(kItems, cStraightliner, kNan),
              Rule(cQ2_2, Semi(cMissing, Semi(cDuplicate, cRange)), kNan) }
      [] v = "appnew" ->
            { Rule(cQ2_, Semi(Semi(cMissing, cMultiSelect), Semi(cStraightliner, cRange)), kFive),
              Rule(cZZ, tMissingRange, Semi(kRangeTwo, kNan)),
              Rule(cQ1, tMissingRange, kRange15),
              Rule(cQ1, Semi(Semi(cSkip, cSkip), Semi(cSkip, cSkip)),
                   Semi(Semi(kOrAnd, kAbsentGroups), Semi(kPrefix, kTo))),
              Rule(cQ1, Semi(cSkip, Semi(cSkip, cSkip)), Semi(kNoThen, Semi(kNoOp, kEmptyIf))),
              Rule(kItems, cStraightliner, kNan) }
      [] OTHER ->
            { Rule(cQ1, tMissingRangeSemi, kRange15),
              Rule(cQ1, cRange, kRange15),
              Rule(cQ1, cSkip, kBlank),
              Rule(cQ2_2, Semi(cMissing, Semi(cDuplicate, cMultiSelect)), kNan) }

\* One respondent's answers to S, Q1, Q2_1, Q2_2
Answers(s, q1, q21, q22) == [S |-> s, Q1 |-> q1, Q2_1 |-> q21, Q2_2 |-> q22]

RowProfiles ==
    { Answers(Num(1), NaN,              Num(0), NaN),
      Answers(Num(1), Num(7),           Num(2), Num(0)),
      Answers(Num(2), Num(5),           NaN,    Num(1)),
      Answers(Num(2), Str(<<" ">>),     Num(1), Num(1)),
      Answers(Num(1), Str(<<"N","A">>), Num(1), Num(0)) }

\* the DataFrame of a choice of answers, RespondentID 1..N in row order; Q10 is
\* a question nobody selected (0 in every row)
Frame(rows) ==
    [c \in Elems(ColNames) |->
        [i \in Rows |->
            CASE c = cRespondentID -> Num(i)
              [] c = cS    -> rows[i].S
              [] c = cQ1   -> rows[i].Q1
              [] c = cQ2_1 -> rows[i].Q2_1
              [] c = cQ2_2 -> rows[i].Q2_2
              [] OTHER     -> Num(0)]]

Datasets == {Frame(rows) : rows \in [Rows -> RowProfiles]}

(***************************************************************************)
(* What the text of the rule rows decides                                  *)
(***************************************************************************)
\* the rule-checks the rule rows of a draft can yield
ChecksOf(v) == UNION {Elems(PairChecks(v, r)) : r \in RuleRows(v)}

\* For every rule row its (check_type, condition) pairs, and for every
\* rule-check what its condition parses to as a Skip and as a Range condition.
\* These depend on the text and on df.columns alone.
Compile(v) ==
    [pairs |-> [r \in RuleRows(v) |-> PairChecks(v, r)],
     skip  |-> [c \in ChecksOf(v) |-> SkipParse(v, c)],
     range |-> [c \in ChecksOf(v) |-> ParseRange(c)]]

(***************************************************************************)
(* Range: the rule-check                                                   *)
(***************************************************************************)
\* app6 converts the column with astype(float); app5 and appnew compare it as
\* stored.  rp is ParseRange of the condition.
RangeRaises(v, d, col, rp) ==
    \/ ~rp.ok
    \/ IF v = "app6" THEN AsTypeFloatRaises(d[col]) ELSE BetweenRaises(d[col])

\* ~mask & ~df["RespondentID"].isin(skip_pass_ids)
RangeOffenders(d, col, rp, skip) ==
    {i \in Rows : /\ ~Between(AsTypeFloat(d[col][i]), rp.lo, rp.hi)
                  /\ Rid(d, i) \notin skip}

\* the try/except of one column
RangeFindingsCol(v, d, col, c, rp, skip) ==
    IF RangeRaises(v, d, col, rp)
    THEN <<RuleFinding(col, cRange, "Invalid range condition", CondText(c), "")>>
    ELSE RowFindings(d, RangeOffenders(d, col, rp, skip), col, cRange,
                     "Value out of range", rp.lo, rp.hi)

RangeFindingsCols(v, d, cols, c, rp, skip) ==
    Flatten([k \in DOMAIN cols |-> RangeFindingsCol(v, d, cols[k], c, rp, skip)])

RangeFindings(v, d, question, c, rp, skip) ==
    RangeFindingsCols(v, d, related_cols(v, question), c, rp, skip)

\* some column of the check ended in the except clause
RangeFailed(v, d, question, rp) ==
    \E col \in Elems(related_cols(v, question)) : RangeRaises(v, d, col, rp)

(***************************************************************************)
(* Skip: the rule-check                                                    *)
(***************************************************************************)
\* Question of a per-respondent Skip finding: the rule's token in app5 and
\* app6, the target column in appnew
SkipQuestion(v, question, then_q) == IF v = "appnew" THEN then_q ELSE question

\* a wrong reading of C5: the two modes taken for one another
SkipFindingsColSwapped(v, d, question, then_q, mask, blank) ==
    IF blank
    THEN RowFindings(d, {i \in mask : BlankMask(d[then_q], i)},
                     SkipQuestion(v, question, then_q), cSkip,
                     "Blank but should be answered", 0, 0)
    ELSE RowFindings(d, {i \in mask : ~BlankMask(d[then_q], i)},
                     SkipQuestion(v, question, then_q), cSkip,
                     "Answered but should be blank", 0, 0)

\* the findings of one target column
SkipFindingsCol(v, d, question, then_q, mask, blank) ==
    IF ~InColumns(then_q)
    THEN <<RuleFinding(question, cSkip,
                       IF v = "app5"
                       THEN "Skip condition references missing target variable"
                       ELSE "Skip condition references missing variable",
                       then_q, "")>>
    ELSE IF blank
    THEN RowFindings(d, {i \in mask : ~BlankMask(d[then_q], i)},
                     SkipQuestion(v, question, then_q), cSkip,
                     "Answered but should be blank", 0, 0)
    ELSE RowFindings(d, {i \in mask : BlankMask(d[then_q], i)},
                     SkipQuestion(v, question, then_q), cSkip,
                     "Blank but should be answered", 0, 0)

\* a wrong reading of C18: the satisfied respondents are collected in both modes
SkipSatisfiedAnyMode(v, d, then_q, mask, blank) ==
    IF v = "appnew" \/ ~InColumns(then_q) THEN {}
    ELSE {Rid(d, i) : i \in {j \in mask : BlankMask(d[then_q], j)}}

\* satisfied = df.loc[mask & blank_mask, "RespondentID"]; appnew has no such
\* statement, and app5 / app6 reach it only for an existing target in
\* "should be blank" mode
SkipSatisfied(v, d, then_q, mask, blank) ==
    IF v = "appnew" \/ ~InColumns(then_q) \/ ~blank THEN {}
    ELSE {Rid(d, i) : i \in {j \in mask : BlankMask(d[then_q], j)}}

\* what one rule-check did: the findings it appended, skip_pass_ids after it,
\* the mask it built (Skip) and whether it ended in a rule-level failure
Outcome(findings, skip, mask, failed) ==
    [findings |-> findings, skip |-> skip, mask |-> mask, failed |-> failed]

\* a wrong reading of C2: the set is replaced by the respondents of this check
SkipTargetsReplacing(v, d, question, plan, skip, mask) ==
    Outcome(Flatten([k \in DOMAIN plan.cols |->
                SkipFindingsCol(v, d, question, plan.cols[k], mask, plan.blank)]),
            UNION {SkipSatisfied(v, d, plan.cols[k], mask, plan.blank) :
                      k \in DOMAIN plan.cols},
            mask, FALSE)

\* the statements of the Skip branch after the mask is built
SkipTargets(v, d, question, plan, skip, mask) ==
    Outcome(Flatten([k \in DOMAIN plan.cols |->
                SkipFindingsCol(v, d, question, plan.cols[k], mask, plan.blank)]),
            skip \cup UNION {SkipSatisfied(v, d, plan.cols[k], mask, plan.blank) :
                                k \in DOMAIN plan.cols},
            mask, FALSE)

\* The whole try/except of the Skip branch.  plan is SkipParse of the condition.
SkipCheckResult(v, d, question, c, plan, skip) ==
    IF plan.err # ""
    THEN Outcome(<<RuleFinding(question, cSkip, "Invalid skip rule format", CondText(c),
                               IF v = "app5" THEN "" ELSE plan.err)>>,
                 skip, {}, TRUE)
    ELSE SkipTargets(v, d, question, plan, skip, IfMask(d, plan.groups))

(***************************************************************************)
(* State                                                                   *)
(***************************************************************************)
VARIABLES
    variant,        \* the draft that runs
    compiled,       \* Compile(variant): the parsed text of the rule rows
    df,             \* the dataset
    report,         \* report: the list of findings
    skip_pass_ids,  \* skip_pass_ids: respondents whose skip was satisfied
    rule,           \* the rule row of the current outer-loop iteration
    q,              \* q = str(rule["Question"]).strip()
    pending,        \* the (check_type, condition) pairs the inner loop has left
    rulesLeft,      \* rule rows the outer loop has left
    pc,             \* "loop" inside the rule loop, "done" once report_df is built,
                    \* "crashed" once an exception left the loop
    hist            \* the rule-checks that ran, in order: inputs, locals, effect

vars == <<variant, compiled, df, report, skip_pass_ids, rule, q, pending, rulesLeft, pc, hist>>

InitOf(vs) ==
    /\ variant \in vs
    /\ compiled = Compile(variant)
    /\ df \in Datasets
    /\ report = <<>>
    /\ skip_pass_ids = {}
    /\ rule = Rule(<<>>, <<>>, <<>>)
    /\ q = <<>>
    /\ pending = <<>>
    /\ rulesLeft = MaxRules
    /\ pc = "loop"
    /\ hist = <<>>

Init == InitOf(Variants)

(***************************************************************************)
(* The rule loop                                                           *)
(***************************************************************************)
cur == Head(pending)

\* One iteration of the inner loop: the findings go to the end of report,
\* skip_pass_ids takes its new value, and hist remembers what ran.
Ran(branch, o) ==
    /\ report' = report \o o.findings
    /\ skip_pass_ids' = o.skip
    /\ pending' = Tail(pending)
    /\ hist' = Append(hist, [branch |-> branch, rule |-> rule, check |-> cur, q |-> q,
                             start |-> Len(report), out |-> o.findings,
                             skipBefore |-> skip_pass_ids, skipAfter |-> o.skip,
                             mask |-> o.mask, failed |-> o.failed])
    /\ UNCHANGED <<variant, compiled, df, rule, q, rulesLeft, pc>>

\* app5 and app6 reach the single-column checks only past the
\* `if q not in df.columns` guard; appnew has no such guard
PastGuard == variant = "appnew" \/ InColumns(q)

\* the check types a draft has a branch for
KnownTypes(v) ==
    IF v = "appnew" THEN {cStraightliner, cMissing, cRange, cSkip, cMultiSelect}
    ELSE {cStraightliner, cMissing, cRange, cSkip, cMultiSelect,
          cOpenEndJunk, cDuplicate}

\* for _, rule in rules_df.iterrows(): the next row of the rule table
NextRule ==
    /\ pc = "loop"
    /\ pending = <<>>
    /\ rulesLeft > 0
    /\ \E r \in RuleRows(variant) :
          /\ rule' = r
          /\ q' = Strip(r.Question)
          /\ pending' = compiled.pairs[r]
    /\ rulesLeft' = rulesLeft - 1
    /\ UNCHANGED <<variant, compiled, df, report, skip_pass_ids, pc, hist>>

\* if q not in df.columns: one rule-level finding, continue
NotFound ==
    /\ pc = "loop"
    /\ pending # <<>>
    /\ cur.ct # cStraightliner
    /\ ~PastGuard
    /\ Ran("notfound",
           Outcome(<<RuleFinding(q, cur.ct, "Question not found in dataset", <<>>, "")>>,
                   skip_pass_ids, {}, TRUE))

MissingCheck ==
    /\ pc = "loop"
    /\ pending # <<>>
    /\ cur.ct = cMissing
    /\ PastGuard
    /\ Ran("missing",
           Outcome(MissingFindings(variant, df, q, skip_pass_ids), skip_pass_ids, {}, FALSE))

RangeCheck ==
    /\ pc = "loop"
    /\ pending # <<>>
    /\ cur.ct = cRange
    /\ PastGuard
    /\ Ran("range",
           Outcome(RangeFindings(variant, df, q, cur, compiled.range[cur], skip_pass_ids),
                   skip_pass_ids, {},
                   RangeFailed(variant, df, q, compiled.range[cur])))

SkipCheck ==
    /\ pc = "loop"
    /\ pending # <<>>
    /\ cur.ct = cSkip
    /\ PastGuard
    /\ Ran("skip",
           SkipCheckResult(variant, df, q, cur, compiled.skip[cur], skip_pass_ids))

MultiSelectCheck ==
    /\ pc = "loop"
    /\ pending # <<>>
    /\ cur.ct = cMultiSelect
    /\ PastGuard
    /\ Ran("multiselect",
           Outcome(MultiSelectFindings(variant, df, q), skip_pass_ids, {}, FALSE))

\* The sum of the Multi-Select branch raises: the findings of the per-column
\* loop are in `report` already, and the exception leaves the rule loop
MultiSelectAbort ==
    /\ pc = "loop"
    /\ pending # <<>>
    /\ cur.ct = cMultiSelect
    /\ PastGuard
    /\ MultiSelectRaises(variant, df, q)
    /\ report' = report \o InvalidFindings(df, expand_prefix(q))
    /\ pc' = "crashed"
    /\ hist' = Append(hist, [branch |-> "aborted", rule |-> rule, check |-> cur, q |-> q,
                             start |-> Len(report),
                             out |-> InvalidFindings(df, expand_prefix(q)),
                             skipBefore |-> skip_pass_ids, skipAfter |-> skip_pass_ids,
                             mask |-> {}, failed |-> TRUE])
    /\ UNCHANGED <<variant, compiled, df, skip_pass_ids, rule, q, pending, rulesLeft>>

\* the Straightliner branch comes before the `q not in df.columns` guard
StraightlinerCheck ==
    /\ pc = "loop"
    /\ pending # <<>>
    /\ cur.ct = cStraightliner
    /\ Ran("straightliner",
           Outcome(StraightlinerFindings(variant, df, q), skip_pass_ids, {},
                   Len(straight_cols(variant, q)) < 2))

DuplicateCheck ==
    /\ pc = "loop"
    /\ pending # <<>>
    /\ cur.ct = cDuplicate
    /\ cDuplicate \in KnownTypes(variant)
    /\ PastGuard
    /\ Ran("duplicate", Outcome(DuplicateFindings(df, q), skip_pass_ids, {}, FALSE))

\* a check type no branch of the if/elif chain matches: nothing is appended
OtherCheck ==
    /\ pc = "loop"
    /\ pending # <<>>
    /\ cur.ct \notin KnownTypes(variant)
    /\ PastGuard
    /\ Ran("other", Outcome(<<>>, skip_pass_ids, {}, FALSE))

\* the rule table is exhausted: report_df = pd.DataFrame(report)
Finish ==
    /\ pc = "loop"
    /\ pending = <<>>
    /\ pc' = "done"
    /\ UNCHANGED <<variant, compiled, df, report, skip_pass_ids, rule, q, pending,
                   rulesLeft, hist>>

Next ==
    \/ NextRule
    \/ NotFound
    \/ MissingCheck
    \/ RangeCheck
    \/ SkipCheck
    \/ MultiSelectCheck
    \/ MultiSelectAbort
    \/ StraightlinerCheck
    \/ DuplicateCheck
    \/ OtherCheck
    \/ Finish

Spec == Init /\ [][Next]_vars

(***************************************************************************)
(* Target resolution on its own: appnew runs one Skip rule-check whose     *)
(* THEN part is "<start> to <end> should be blank"                         *)
(***************************************************************************)
\* one side of the range: a base and a trailing integer (-1: no integer)
Side(base, num) == [base |-> base, num |-> num]

SideText(sd) == IF sd.num < 0 THEN sd.base ELSE sd.base \o IntStr(sd.num)

RangeBaseNames == {cQ2_, <<"Q">>, <<"Q","t","o">>, <<"Z","Z","_">>}

RangeNums == {-1, 1, 2, 10}

RangeSides == {Side(b, n) : b \in RangeBaseNames, n \in RangeNums}

\* "<start> to <end>"
RangeExpr(a, b) == SideText(a) \o <<" ","t","o"," ">> \o SideText(b)

\* "if S=1 then <start> to <end> should be blank"
RangeCond(a, b) ==
    <<"i","f"," ","S","=","1"," ","t","h","e","n"," ">> \o RangeExpr(a, b)
        \o <<" ","s","h","o","u","l","d"," ","b","e"," ","b","l","a","n","k">>

RangeCheckOf(a, b) == [ct |-> cSkip, cond |-> RangeCond(a, b), none |-> FALSE]

\* the datasets in which every respondent gave the same answers
UniformDatasets == {Frame([i \in Rows |-> p]) : p \in RowProfiles}

InitTargets ==
    /\ variant = "appnew"
    /\ df \in UniformDatasets
    /\ \E a \in RangeSides : \E b \in RangeSides :
          /\ rule = Rule(cQ1, cSkip, RangeCond(a, b))
          /\ pending = <<RangeCheckOf(a, b)>>
          /\ compiled = [pairs |-> <<>>,
                         skip  |-> [c \in {RangeCheckOf(a, b)} |-> SkipParse("appnew", c)],
                         range |-> [c \in {RangeCheckOf(a, b)} |-> ParseRange(c)]]
    /\ report = <<>>
    /\ skip_pass_ids = {}
    /\ q = cQ1
    /\ rulesLeft = 0
    /\ pc = "loop"
    /\ hist = <<>>

NextTargets == SkipCheck \/ Finish

SpecTargets == InitTargets /\ [][NextTargets]_vars

(***************************************************************************)
(* Notions of the specification the properties below are stated in         *)
(***************************************************************************)
\* the rule-check that ran last
last == hist[Len(hist)]

\* a value is blank if it is the null marker or, after trimming, an empty string
Blank(c) == c.t = "nan" \/ (c.t = "str" /\ Strip(c.s) = <<>>)

\* the findings rule-check h appended for row i with this Question and Issue
FindingsFor(h, question, issue, i) ==
    {j \in DOMAIN h.out : /\ h.out[j].RespondentID = Rid(df, i)
                          /\ h.out[j].Question = question
                          /\ h.out[j].Issue = issue}

\* the findings rule-check h appended for row i, whatever they say
FindingsOfRow(h, i) == {j \in DOMAIN h.out : h.out[j].RespondentID = Rid(df, i)}

\* 1 when the condition holds, else 0
Count(b) == IF b THEN 1 ELSE 0

\* the per-respondent findings among the findings of a rule-check
PerRespondent(out) == {j \in DOMAIN out : out[j].RespondentID # 0}

(***************************************************************************)
(* C1  Missing                                                             *)
(***************************************************************************)
MissingAsSpecified(h) ==
    \A col \in Elems(related_cols(variant, h.q)) : \A i \in Rows :
        Cardinality(FindingsFor(h, col, "Value is missing", i))
            = Count(Blank(df[col][i]) /\ Rid(df, i) \notin h.skipBefore)

\* C1: in app6 and appnew, a Missing rule-check on a resolved column appends
\* exactly one "Value is missing" finding for a row iff the row's value is blank
\* (null, or empty after trimming) and its RespondentID is not in the
\* skip-satisfaction set when the check runs, and none for any other row.
C1_MissingIffBlank ==
    (hist # <<>> /\ variant \in {"app6", "appnew"} /\ last.branch = "missing")
        => MissingAsSpecified(last)

(***************************************************************************)
(* C2  the skip-satisfaction set only grows                                *)
(***************************************************************************)
\* C2: the skip-satisfaction set is empty when the run starts; every
\* rule-check leaves in it every RespondentID it held before, only a Skip
\* rule-check changes it, and nothing changes it between two rule-checks.
C2_SkipSetOnlyGrows ==
    /\ hist = <<>> => skip_pass_ids = {}
    /\ hist # <<>> => /\ hist[1].skipBefore = {}
                      /\ skip_pass_ids = last.skipAfter
    /\ \A k \in DOMAIN hist :
          /\ hist[k].skipBefore \subseteq hist[k].skipAfter
          /\ hist[k].branch # "skip" => hist[k].skipAfter = hist[k].skipBefore
          /\ k > 1 => hist[k].skipBefore = hist[k - 1].skipAfter

\* a second Skip rule-check ran on a set that an earlier one had filled
C2_Witness ==
    \E k \in DOMAIN hist : \E j \in DOMAIN hist :
        /\ k < j
        /\ hist[k].branch = "skip"
        /\ hist[k].skipAfter # hist[k].skipBefore
        /\ hist[j].branch = "skip"
        /\ hist[j].skipAfter # {}

(***************************************************************************)
(* C3  exclusion of skip-satisfied respondents                             *)
(***************************************************************************)
\* the respondents a "should be blank" Skip rule-check found with the
\* antecedent true and the target blank
SatisfiedIn(h, plan) ==
    IF h.branch = "skip" /\ ~h.failed /\ plan.blank
    THEN {Rid(df, i) : i \in {j \in h.mask :
              \E col \in Elems(plan.cols) : InColumns(col) /\ Blank(df[col][j])}}
    ELSE {}

Satisfied(h) == SatisfiedIn(h, compiled.skip[h.check])

SatisfiedBefore(k) == UNION {Satisfied(hist[j]) : j \in 1..(k - 1)}

\* the rows a Missing or Range rule-check reports when nobody is excluded
Candidates(h) ==
    IF h.branch = "missing" THEN MissingOffenders(variant, df, h.q, {})
    ELSE RangeOffenders(df, h.q, compiled.range[h.check], {})

ExcludedIffSatisfied(h, before) ==
    \A i \in Candidates(h) : (FindingsOfRow(h, i) = {}) <=> (Rid(df, i) \in before)

\* the findings a rule-check appended are where it put them
StillThere(h) == SubSeq(report, h.start + 1, h.start + Len(h.out)) = h.out

\* C3: in app6, a respondent is left out of the offenders of a Missing or
\* Range rule-check iff a "should be blank" Skip rule-check that ran earlier
\* found the antecedent true and the target blank for that respondent; and the
\* findings of a Missing or Range rule-check stay in the report as appended,
\* whatever runs later.
C3_ExcludedIffSatisfiedEarlier ==
    variant = "app6" =>
        \A k \in DOMAIN hist :
            (hist[k].branch \in {"missing", "range"} /\ ~hist[k].failed)
                => /\ ExcludedIffSatisfied(hist[k], SatisfiedBefore(k))
                   /\ StillThere(hist[k])

\* a Missing or Range rule-check left out a row it would have reported, and
\* reported another one, and a Skip rule-check ran after it
C3_Witness ==
    /\ variant = "app6"
    /\ \E k \in DOMAIN hist :
          /\ hist[k].branch \in {"missing", "range"}
          /\ ~hist[k].failed
          /\ \E i \in Candidates(hist[k]) : Rid(df, i) \in SatisfiedBefore(k)
          /\ hist[k].out # <<>>
          /\ \E j \in DOMAIN hist : j > k /\ hist[j].branch = "skip"

(***************************************************************************)
(* C4  Range                                                               *)
(***************************************************************************)
\* the value is non-blank, numeric and outside the closed interval [lo, hi]
NumericOutside(x, lo, hi) == ~x.nan /\ (x.v < lo \/ x.v > hi)

RangeAsSpecified(h, rp) ==
    \A col \in Elems(related_cols(variant, h.q)) : \A i \in Rows :
        Cardinality(FindingsFor(h, col, "Value out of range", i))
            = Count(/\ ~Blank(df[col][i])
                    /\ NumericOutside(ToNumeric(df[col][i]), rp.lo, rp.hi)
                    /\ Rid(df, i) \notin h.skipBefore)

\* C4: in appnew and app5, a Range rule-check with a well-formed condition
\* reports a row as "Value out of range" iff its value is non-blank, numeric,
\* outside [min, max] and its RespondentID is not in the skip-satisfaction set;
\* a blank value produces no Range finding.
C4_RangeIffOutside ==
    (/\ hist # <<>>
     /\ variant \in {"appnew", "app5"}
     /\ last.branch = "range"
     /\ compiled.range[last.check].ok)
        => RangeAsSpecified(last, compiled.range[last.check])

(***************************************************************************)
(* C5  Skip: the two modes                                                 *)
(***************************************************************************)
\* rows with the antecedent true and target column T blank / not blank
TrueAndBlank(h, T) == {i \in h.mask : Blank(df[T][i])}

TrueAndAnswered(h, T) == {i \in h.mask : ~Blank(df[T][i])}

\* rule-check h reports, under `question`, exactly the rows of S with this Issue
ReportsExactly(h, question, issue, S) ==
    \A i \in Rows : Cardinality(FindingsFor(h, question, issue, i)) = Count(i \in S)

\* every per-respondent finding of h carries this Issue
OnlyIssue(h, issue) == \A j \in PerRespondent(h.out) : h.out[j].Issue = issue

ShouldBeBlankMode(h, question, T) ==
    /\ ReportsExactly(h, question, "Answered but should be blank", TrueAndAnswered(h, T))
    /\ OnlyIssue(h, "Answered but should be blank")
    /\ {Rid(df, i) : i \in TrueAndBlank(h, T)} \subseteq h.skipAfter

ShouldBeAnsweredMode(h, question, T) ==
    /\ ReportsExactly(h, question, "Blank but should be answered", TrueAndBlank(h, T))
    /\ OnlyIssue(h, "Blank but should be answered")

\* rows whose antecedent is false get no finding and are not added to the set
FalseRowsUntouched(h) ==
    \A i \in Rows \ h.mask :
        /\ FindingsOfRow(h, i) = {}
        /\ Rid(df, i) \in h.skipAfter => Rid(df, i) \in h.skipBefore

SkipModes(h, plan) ==
    (~h.failed /\ InColumns(plan.cols[1]))
        => /\ IF plan.blank THEN ShouldBeBlankMode(h, h.q, plan.cols[1])
                            ELSE ShouldBeAnsweredMode(h, h.q, plan.cols[1])
           /\ FalseRowsUntouched(h)

\* C5: in app6, a Skip rule-check whose condition parses and whose target
\* column T exists reports, in "should be blank" mode, exactly the rows with
\* the antecedent true and T not blank, and adds every row with the antecedent
\* true and T blank to the skip-satisfaction set; in "should be answered" mode
\* it reports exactly the rows with the antecedent true and T blank; a row
\* with the antecedent false gets no finding and is not added to the set.
C5_SkipModes ==
    (hist # <<>> /\ variant = "app6" /\ last.branch = "skip")
        => SkipModes(last, compiled.skip[last.check])

\* a "should be blank" Skip rule-check reported one row and added another to
\* the set
C5_Witness ==
    /\ hist # <<>>
    /\ variant = "app6"
    /\ last.branch = "skip"
    /\ ~last.failed
    /\ compiled.skip[last.check].blank
    /\ TrueAndAnswered(last, compiled.skip[last.check].cols[1]) # {}
    /\ TrueAndBlank(last, compiled.skip[last.check].cols[1]) # {}

(***************************************************************************)
(* C6  Skip with several target columns                                    *)
(***************************************************************************)
PerTarget(h, T, blank) ==
    IF blank
    THEN /\ ReportsExactly(h, T, "Answered but should be blank", TrueAndAnswered(h, T))
         /\ {Rid(df, i) : i \in TrueAndBlank(h, T)} \subseteq h.skipAfter
    ELSE ReportsExactly(h, T, "Blank but should be answered", TrueAndBlank(h, T))

EachTargetOnItsOwn(h, plan) ==
    (~h.failed /\ Len(plan.cols) > 1)
        => \A T \in Elems(plan.cols) : PerTarget(h, T, plan.blank)

\* C6: in appnew, a Skip rule-check whose consequent resolves to several
\* target columns is evaluated for each column on its own: each column gets its
\* own findings and, in "should be blank" mode, adds its own satisfied
\* respondents (antecedent true, that column blank) to the skip-satisfaction set.
C6_EachTargetOnItsOwn ==
    (hist # <<>> /\ variant = "appnew" /\ last.branch = "skip")
        => EachTargetOnItsOwn(last, compiled.skip[last.check])

(***************************************************************************)
(* C7  the antecedent mask                                                 *)
(***************************************************************************)
Cmp(col, op, val) == [col |-> col, op |-> op, val |-> val]

\* The grouping the sample conditions are meant to have: "or"-separated
\* groups of "and"-separated comparisons.
Antecedent(cond) ==
    IF cond = kOrAnd
    THEN << << Cmp(cS, <<"=">>, <<"2">>), Cmp(cQ2_1, <<">","=">>, <<"1">>) >>,
            << Cmp(cS, <<"=">>, <<"1">>) >> >>
    ELSE << << Cmp(cS, <<"=">>, <<"1">>) >> >>

\* the conditions of the rule rows whose antecedent is well formed
WellFormedSkip == {kBlank, kAnswered, kOrAnd, kPrefix, kTo}

\* one comparison, true or false of row i
CmpHolds(c, i) == i \in PartRows(df, PartOf(variant, c.op, c.col, c.val))

OrOfAnds(groups) ==
    {i \in Rows : \E g \in DOMAIN groups : \A p \in DOMAIN groups[g] :
        CmpHolds(groups[g][p], i)}

\* C7: in app6 and appnew, the antecedent mask of a Skip rule-check is the OR
\* over the "or"-separated groups of the AND of the comparisons of each group:
\* a row is in the mask iff some group has all its comparisons true of the row.
C7_MaskIsOrOfAnds ==
    (/\ hist # <<>>
     /\ variant \in {"app6", "appnew"}
     /\ last.branch = "skip"
     /\ ~last.failed
     /\ last.check.cond \in WellFormedSkip)
        => last.mask = OrOfAnds(Antecedent(last.check.cond))

\* the mixed condition ran on a dataset where one row satisfies the second
\* group only and another satisfies one comparison of the first group only
C7_Witness ==
    /\ hist # <<>>
    /\ variant \in {"app6", "appnew"}
    /\ last.branch = "skip"
    /\ ~last.failed
    /\ last.check.cond = kOrAnd
    /\ \E i \in last.mask : CmpHolds(Cmp(cS, <<"=">>, <<"1">>), i)
    /\ \E i \in Rows \ last.mask : CmpHolds(Cmp(cS, <<"=">>, <<"2">>), i)

(***************************************************************************)
(* C8  malformed Skip conditions                                           *)
(***************************************************************************)
\* no "then"; a comparison without operator; an empty antecedent
MalformedSkip == {kNoThen, kNoOp, kEmptyIf}

OneRuleLevelFinding(h) ==
    /\ Len(h.out) = 1
    /\ h.out[1].RespondentID = 0
    /\ h.skipAfter = h.skipBefore

\* C8: in appnew, a Skip rule-check with a malformed condition appends exactly
\* one rule-level finding (RespondentID null), no per-respondent finding, and
\* leaves the skip-satisfaction set unchanged.
C8_MalformedSkipFails ==
    (/\ hist # <<>>
     /\ variant = "appnew"
     /\ last.branch = "skip"
     /\ last.check.cond \in MalformedSkip)
        => OneRuleLevelFinding(last)

(***************************************************************************)
(* C9  pairing check types with conditions                                 *)
(***************************************************************************)
\* the i-th of the n rule-checks of a row with condition list cs
PairedWith(types, cs, i) ==
    [ct |-> Strip(types[i]),
     cond |-> Strip(IF i <= Len(cs) THEN cs[i] ELSE cs[Len(cs)]),
     none |-> FALSE]

ExpectedOf(types, cs) == [i \in DOMAIN types |-> PairedWith(types, cs, i)]

\* n rule-checks for n check types, the last condition repeated when there are
\* fewer conditions, the conditions past n dropped
ExpectedPairs(r) == ExpectedOf(Split(r.Check_Type, <<";">>), Split(r.Condition, <<";">>))

\* j rule-checks of the current rule row ran, the others are still to run
Walked(expected, j) ==
    /\ pending = SubSeq(expected, j + 1, Len(expected))
    /\ Len(hist) >= j
    /\ \A t \in 1..j : /\ hist[Len(hist) - j + t].check = expected[t]
                       /\ hist[Len(hist) - j + t].rule = rule

WalksExpected(expected) == \E j \in 0..Len(expected) : Walked(expected, j)

\* C9: in appnew, a rule row with n check types and m conditions yields exactly
\* n rule-checks, the i-th pairing check type i with condition i; when m < n
\* the last condition is repeated, when m > n the conditions past n are dropped.
C9_Pairing ==
    (variant = "appnew" /\ rule \in RuleRows(variant)) => WalksExpected(ExpectedPairs(rule))

\* a row with two check types and one condition ran both rule-checks, the
\* second with the repeated condition
C9_Witness ==
    /\ variant = "appnew"
    /\ rule = Rule(cQ1, tMissingRange, kRange15)
    /\ pending = <<>>
    /\ Len(hist) >= 2
    /\ hist[Len(hist) - 1].check = [ct |-> cMissing, cond |-> kRange15, none |-> FALSE]
    /\ last.check = [ct |-> cRange, cond |-> kRange15, none |-> FALSE]
    /\ last.rule = rule

(***************************************************************************)
(* C10  order of the report                                                *)
(***************************************************************************)
\* the report is the findings of the rule-checks, in the order they ran, each
\* kept whole: nothing is removed, reordered or merged
InRuleCheckOrder ==
    /\ report = Flatten([k \in DOMAIN hist |-> hist[k].out])
    /\ \A k \in DOMAIN hist : StillThere(hist[k])

\* the per-respondent findings of one rule-check are in dataset row order
RowOrder(out) ==
    \A a \in PerRespondent(out) : \A b \in PerRespondent(out) :
        a < b => out[a].RespondentID <= out[b].RespondentID

\* position of the pass of a rule-check a finding belongs to: one pass per
\* resolved column, in column order, and the "No options selected" pass last
Pass(f) ==
    IF f.Issue = "No options selected" THEN Len(ColNames) + 1
    ELSE MinOr(0, {c \in DOMAIN ColNames : ColNames[c] = f.Question})

\* pass by pass, and in dataset row order within one pass
PassThenRowOrder(out) ==
    \A a \in PerRespondent(out) : \A b \in PerRespondent(out) :
        a < b => \/ Pass(out[a]) < Pass(out[b])
                 \/ /\ Pass(out[a]) = Pass(out[b])
                    /\ out[a].RespondentID < out[b].RespondentID

\* C10 as stated: the report is append-only and in rule-table order, without
\* deduplication, and the findings of one rule-check are in dataset row order.
C10_RowOrderWithinCheck ==
    /\ InRuleCheckOrder
    /\ \A k \in DOMAIN hist : RowOrder(hist[k].out)

\* C10 amended: the report is append-only and in rule-table order, without
\* deduplication; the findings of one rule-check come column by column in the
\* order of the resolved columns (the "No options selected" findings of a
\* Multi-Select check after its per-column findings), and in dataset row order
\* within one column.
C10_ColumnThenRowOrder ==
    /\ InRuleCheckOrder
    /\ \A k \in DOMAIN hist : PassThenRowOrder(hist[k].out)

\* two rule-checks appended the same findings, both are in the report, and
\* their findings run over two columns with a later row before an earlier one
C10_Witness ==
    \E k \in DOMAIN hist : \E j \in DOMAIN hist :
        /\ k < j
        /\ hist[k].out = hist[j].out
        /\ ~RowOrder(hist[k].out)
        /\ Len(report) >= 2 * Len(hist[k].out)

(***************************************************************************)
(* C11  the run completes                                                  *)
(***************************************************************************)
\* the findings of a rule-check that failed hold a rule-level finding
ConvertedToFinding(h) == \E j \in DOMAIN h.out : h.out[j].RespondentID = 0

\* C11: a run always reaches the report-building step: no rule-check ends the
\* rule loop with an exception, a rule-check that fails is converted into a
\* rule-level finding, and the report is built only when no rule-check of the
\* rule table is left to run.
C11_RunCompletes ==
    /\ pc # "crashed"
    /\ \A k \in DOMAIN hist : hist[k].failed => ConvertedToFinding(hist[k])
    /\ pc = "done" => pending = <<>>

(***************************************************************************)
(* C12  a question token that resolves to no column                        *)
(***************************************************************************)
\* the token is no column and no prefix of a column
Unresolved(question) == ~InColumns(question) /\ expand_prefix(question) = <<>>

\* C12: in appnew, a Missing or Range rule-check whose question token matches
\* no dataset column, neither exactly nor as a prefix, appends exactly one
\* rule-level finding "Question not found in dataset" and nothing else.
C12_UnresolvedTokenReported ==
    (/\ hist # <<>>
     /\ variant = "appnew"
     /\ last.check.ct \in {cMissing, cRange}
     /\ Unresolved(last.q))
        => /\ Len(last.out) = 1
           /\ last.out[1].RespondentID = 0
           /\ last.out[1].Issue = "Question not found in dataset"

(***************************************************************************)
(* C13  Multi-Select                                                       *)
(***************************************************************************)
\* the value is the number 0 or the number 1
ZeroOrOne(c) == c.t = "num" /\ c.n \in {0, 1}

\* what a cell adds to the sum of its row, a blank counting as 0
RECURSIVE SumBlankAsZero(_, _)
SumBlankAsZero(cols, i) ==
    IF cols = <<>> THEN 0
    ELSE (IF df[Head(cols)][i].t = "num" THEN df[Head(cols)][i].n ELSE 0)
         + SumBlankAsZero(Tail(cols), i)

\* every cell of the row is a number or blank, and they add up to 0
NothingSelected(cols, i) ==
    /\ \A k \in DOMAIN cols : df[cols[k]][i].t = "num" \/ Blank(df[cols[k]][i])
    /\ SumBlankAsZero(cols, i) = 0

MultiSelectAsSpecified(h, cols) ==
    /\ \A i \in Rows : \A k \in DOMAIN cols :
          Cardinality(FindingsFor(h, cols[k], "Invalid value (not 0/1)", i))
              = Count(~ZeroOrOne(df[cols[k]][i]))
    /\ \A i \in Rows :
          Cardinality(FindingsFor(h, h.q, "No options selected", i))
              = Count(NothingSelected(cols, i))

\* C13: in app6, a Multi-Select rule-check works on the columns the question
\* token is a prefix of, whether or not the token is a column itself; it
\* appends one "Invalid value (not 0/1)" finding per respondent and resolved
\* column whose value is not 0 or 1, and one "No options selected" finding,
\* under the question token, for a respondent iff the values of the resolved
\* columns, a blank counting as 0, add up to 0.
C13_MultiSelectByPrefix ==
    (/\ hist # <<>>
     /\ variant = "app6"
     /\ last.check.ct = cMultiSelect
     /\ expand_prefix(last.q) # <<>>)
        => MultiSelectAsSpecified(last, expand_prefix(last.q))

(***************************************************************************)
(* C14  Straightliner                                                      *)
(***************************************************************************)
\* every item of the row holds the same response
SameResponse(cols, i) ==
    /\ \A k \in DOMAIN cols : ~Blank(df[cols[k]][i])
    /\ \A k \in DOMAIN cols : df[cols[k]][i] = df[cols[1]][i]

\* C14: in app6 and appnew, a Straightliner rule-check with at least two
\* resolved columns reports a row ("Same response across all items") iff every
\* resolved item of the row holds the same response; a row with one item
\* answered and the others blank is not reported.
C14_StraightlinerIffSame ==
    (/\ hist # <<>>
     /\ variant \in {"app6", "appnew"}
     /\ last.branch = "straightliner"
     /\ ~last.failed)
        => \A i \in Rows :
              Cardinality(FindingsOfRow(last, i))
                  = Count(SameResponse(straight_cols(variant, last.q), i))

(***************************************************************************)
(* C15  Duplicate                                                          *)
(***************************************************************************)
\* another respondent has the same value in the column
SharedValue(col, i) == \E j \in Rows : j # i /\ df[col][j] = df[col][i]

\* C15: in app5 and app6, a Duplicate rule-check on column C reports a
\* respondent ("Duplicate value found") iff at least one other respondent has
\* the same value in C: every row sharing a value is reported once, the first
\* occurrence included, and a row whose value is unique is not reported.
C15_DuplicateIffShared ==
    (hist # <<>> /\ last.branch = "duplicate")
        => /\ \A i \in Rows :
                 Cardinality(FindingsFor(last, last.q, "Duplicate value found", i))
                     = Count(SharedValue(last.q, i))
           /\ Len(last.out) = Cardinality({i \in Rows : SharedValue(last.q, i)})

\* a Duplicate rule-check of app6 reported the first respondent, whose value a
\* later respondent shares
C15_Witness ==
    /\ hist # <<>>
    /\ variant = "app6"
    /\ last.branch = "duplicate"
    /\ FindingsFor(last, last.q, "Duplicate value found", 1) # {}
    /\ \E j \in Rows : j > 1 /\ df[last.q][j] = df[last.q][1]

(***************************************************************************)
(* C16  range expansion                                                    *)
(***************************************************************************)
\* the existing columns among base{n1}, base{n1+1}, ..., base{n2}, ascending
ExistingAmong(base, n1, n2) ==
    SelectSeq([k \in 1..(n2 - n1 + 1) |-> base \o IntStr(n1 + k - 1)], InColumns)

\* what "<start> to <end>" stands for
Expansion(a, b) ==
    IF a.num >= 0 /\ b.num >= 0 /\ a.base = b.base
    THEN ExistingAmong(a.base, a.num, b.num)
    ELSE <<>>

\* the Skip rule-check resolved its targets without an exception, to Expansion
ExpandsTo(h, plan, cols) == ~h.failed /\ plan.err = "" /\ plan.cols = cols

\* C16: in appnew, "<base><n1> to <base><n2>" expands to exactly the existing
\* dataset columns among base{n1}, ..., base{n2}, in ascending order, for every
\* base of letters, digits and underscores, a base that contains the letters
\* "to" included; to the empty list when the two bases differ or a side has no
\* trailing integer; and the expansion never raises.
C16_RangeExpansion ==
    (hist # <<>> /\ last.branch = "skip")
        => \A a \in RangeSides : \A b \in RangeSides :
              last.check = RangeCheckOf(a, b)
                  => ExpandsTo(last, compiled.skip[last.check], Expansion(a, b))

(***************************************************************************)
(* C17  skip satisfaction is scoped to a question                          *)
(***************************************************************************)
\* the respondents the Skip rule-checks before the k-th satisfied on column U
SatisfiedBeforeOn(k, U) ==
    UNION {Satisfied(hist[j]) :
              j \in {t \in 1..(k - 1) : /\ hist[t].branch = "skip"
                                        /\ ~hist[t].failed
                                        /\ U \in Elems(compiled.skip[hist[t].check].cols)}}

\* C17: in app6 and app5, a respondent is left out of the offenders of a
\* Missing or Range rule-check on column U iff an earlier "should be blank"
\* Skip rule-check with target U added the respondent to the skip-satisfaction
\* set: a respondent added for another target column T is still reported on U
\* when the value in U is blank or out of range.
C17_ScopedToQuestion ==
    variant \in {"app6", "app5"} =>
        \A k \in DOMAIN hist :
            (hist[k].branch \in {"missing", "range"} /\ ~hist[k].failed)
                => ExcludedIffSatisfied(hist[k], SatisfiedBeforeOn(k, hist[k].q))

(***************************************************************************)
(* C18  what leaves the skip-satisfaction set alone                        *)
(***************************************************************************)
\* rule-check h is a Skip rule-check that ran in "should be blank" mode
BlankModeSkip(h) ==
    h.branch = "skip" /\ ~h.failed /\ compiled.skip[h.check].blank

\* C18: a Skip rule-check in "should be answered" mode leaves the
\* skip-satisfaction set as it found it, whatever the antecedent mask and the
\* target values are; so does every rule-check that is no Skip rule-check, and
\* a Skip rule-check that ends in a rule-level failure.
C18_AnsweredModeLeavesSet ==
    /\ hist # <<>> => (~BlankModeSkip(last) => skip_pass_ids = last.skipBefore)
    /\ \A k \in DOMAIN hist :
          ~BlankModeSkip(hist[k]) => hist[k].skipAfter = hist[k].skipBefore

\* a "should be answered" Skip rule-check found the antecedent true and the
\* target blank for a respondent who is not in the set, and did not add them
C18_Witness ==
    /\ hist # <<>>
    /\ last.branch = "skip"
    /\ ~last.failed
    /\ ~compiled.skip[last.check].blank
    /\ \E i \in last.mask :
          /\ Blank(df[compiled.skip[last.check].cols[1]][i])
          /\ Rid(df, i) \notin skip_pass_ids

(***************************************************************************)
(* C19  a Range condition that does not parse                              *)
(***************************************************************************)
\* C19: in appnew and app6, a Range rule-check whose condition is not
\* "min-max" with two numeric bounds appends exactly one rule-level finding
\* "Invalid range condition" that carries the condition text, however many
\* columns the question token resolves to, and no per-respondent finding.
C19_OneFindingForBadRange ==
    (/\ hist # <<>>
     /\ variant \in {"appnew", "app6"}
     /\ last.branch = "range"
     /\ ~compiled.range[last.check].ok
     /\ ~Unresolved(last.q))
        => /\ Len(last.out) = 1
           /\ last.out[1].RespondentID = 0
           /\ last.out[1].Issue = "Invalid range condition"
           /\ last.out[1].Arg = CondText(last.check)

(***************************************************************************)
(* C20  a cell that is no number in a Range rule-check                     *)
(***************************************************************************)
\* C20: in app6, a Range rule-check with a well-formed condition is not turned
\* into a rule-level "Invalid range condition" finding by a cell that cannot
\* be coerced to a number: such a cell affects its own row only, and every row
\* that holds a number is reported iff the number is outside [min, max] and
\* the respondent is not in the skip-satisfaction set.
C20_TextCellIsRowLevel ==
    (/\ hist # <<>>
     /\ variant = "app6"
     /\ last.branch = "range"
     /\ compiled.range[last.check].ok)
        => /\ \A j \in DOMAIN last.out : last.out[j].RespondentID # 0
           /\ \A i \in Rows :
                 df[last.q][i].t = "num" =>
                     Cardinality(FindingsFor(last, last.q, "Value out of range", i))
                         = Count(/\ NumericOutside(ToNumeric(df[last.q][i]),
                                                   compiled.range[last.check].lo,
                                                   compiled.range[last.check].hi)
                                 /\ Rid(df, i) \notin last.skipBefore)

(***************************************************************************)
(* C21  a comparison on a column the dataset does not have                 *)
(***************************************************************************)
\* the grouping of kAbsentGroups: ZZ is not a column of the dataset
AbsentAntecedent ==
    << << Cmp(cZZ, <<"=">>, <<"1">>) >>,
       << Cmp(cS, <<"=">>, <<"2">>), Cmp(cZZ, <<">">>, <<"1">>) >>,
       << Cmp(cS, <<"=">>, <<"1">>) >> >>

\* a group that names an absent column is false for every row; the other
\* groups are the AND of their comparisons
GroupHolds(group, i) ==
    /\ \A p \in DOMAIN group : InColumns(group[p].col)
    /\ \A p \in DOMAIN group : CmpHolds(group[p], i)

MaskSkippingAbsent(groups) ==
    {i \in Rows : \E g \in DOMAIN groups : GroupHolds(groups[g], i)}

\* C21: in appnew, a Skip rule-check whose antecedent compares a column that
\* is absent from the dataset does not fail: it appends no rule-level finding,
\* every AND-group that names the absent column is false for every row, the
\* mask is the OR of the other groups, and each row of the mask whose target
\* is blank gets its one "Blank but should be answered" finding.
C21_AbsentColumnGroupIsFalse ==
    (/\ hist # <<>>
     /\ variant = "appnew"
     /\ last.branch = "skip"
     /\ last.check.cond = kAbsentGroups)
        => /\ ~last.failed
           /\ \A j \in DOMAIN last.out : last.out[j].RespondentID # 0
           /\ last.mask = MaskSkippingAbsent(AbsentAntecedent)
           /\ \A i \in Rows :
                 Cardinality(FindingsFor(last, cQ1, "Blank but should be answered", i))
                     = Count(i \in MaskSkippingAbsent(AbsentAntecedent) /\ Blank(df[cQ1][i]))

\* the check ran on a dataset where one row satisfies the last group and has
\* a blank target, and another row satisfies the present comparison of the
\* group that names the absent column
C21_Witness ==
    /\ hist # <<>>
    /\ variant = "appnew"
    /\ last.branch = "skip"
    /\ last.check.cond = kAbsentGroups
    /\ \E i \in last.mask :
          FindingsFor(last, cQ1, "Blank but should be answered", i) # {}
    /\ \E i \in Rows \ last.mask : CmpHolds(Cmp(cS, <<"=">>, <<"2">>), i)

(***************************************************************************)
(* C22  the columns of a Straightliner rule-check                          *)
(***************************************************************************)
\* the names of a comma-separated list that are columns of the dataset
CommaList(question) == SelectSeq(StripAll(Split(question, <<",">>)), InColumns)

\* comma list, or prefix match when the token is no list of existing columns
ListOrPrefix(list, question) ==
    IF list # <<>> THEN list ELSE expand_prefix(question)

ResolvedItems(question) == ListOrPrefix(CommaList(question), question)

\* the rows whose items hold one distinct non-blank value, as the drafts count
SameAcross(cols) == {i \in Rows : NUnique(df, cols, i) = 1}

StraightlinerOver(h, cols) ==
    IF Len(cols) >= 2
    THEN /\ \A j \in DOMAIN h.out : h.out[j].RespondentID # 0
         /\ \A i \in Rows :
               Cardinality(FindingsOfRow(h, i)) = Count(i \in SameAcross(cols))
    ELSE /\ Len(h.out) = 1
         /\ h.out[1].RespondentID = 0

\* C22: in app6 and appnew, a Straightliner rule-check resolves its columns
\* from the comma-separated list of the token or, when the token is no list of
\* existing columns, by prefix match; with two or more resolved columns it
\* appends no rule-level finding and one finding for each row whose items
\* hold the same response, with fewer it appends exactly one rule-level
\* finding and no per-respondent finding.
C22_StraightlinerResolution ==
    (/\ hist # <<>>
     /\ variant \in {"app6", "appnew"}
     /\ last.branch = "straightliner")
        => StraightlinerOver(last, ResolvedItems(last.q))
====
